---- MODULE Spec2Model ----
(***************************************************************************)
(* Model of runsge.py: a Submitter that hands SGE scripts to qsub, keeps   *)
(* one Job record per submission and polls the files output_<index> and    *)
(* error_<index> that the queue writes, until every job has finished.      *)
(*                                                                         *)
(* The Submitter runs in one thread; the queue writes the files on its own *)
(* schedule.  A poll of one job is therefore split at the places where the *)
(* queue's writes can change its outcome: the checks of lines 79-100, the  *)
(* read of line 101 and the removal of lines 102-105.  The informational   *)
(* print calls of lines 71 and 103 are left out; print_results is modelled *)
(* by the lines it emits.  Reads and removals of files are taken to        *)
(* succeed (no permission errors).                                         *)
(***************************************************************************)
EXTENDS Integers, Sequences, FiniteSets, TLC

VARIABLES
    jobs,           \* Submitter.jobs: the list of Job records
    current_index,  \* Submitter.current_index
    fs,             \* the working directory: path -> file
    pc,             \* where the Submitter's thread is
    i,              \* loop variable of __check_finished_jobs
    finished,       \* local flag of __check_finished_jobs
    ret,            \* how the last operation of the caller ended
    printed,        \* the lines emitted by the last print_results
    reads,          \* history: path -> number of times open(path).read() ran
    last_stdout     \* what qsub printed in the last call, if it was a submit

vars == <<jobs, current_index, fs, pc, i, finished, ret, printed, reads,
          last_stdout>>

-----------------------------------------------------------------------------
(* Bounds of the model *)

\* number of submit calls explored
MaxSubmits == 2
\* number of chunks the queue writes to one output file
MaxFileLen == 2
\* number of digits of a job id in the outputs used to exercise the parsing
MaxRun == 2

-----------------------------------------------------------------------------
(* Text: byte strings and strings are sequences of one-character strings *)

Marker == <<"Y", "o", "u", "r", " ", "j", "o", "b", " ">>

DigitChar == <<"0", "1", "2", "3", "4", "5", "6", "7", "8", "9">>

Digits == {DigitChar[k] : k \in 1..10}

DigitVal(c) == (CHOOSE k \in 1..10 : DigitChar[k] = c) - 1

\* bytes.find(sub): the lowest 0-based offset of sub in s, or -1
Find(s, sub) ==
    LET hits == {p \in 0..(Len(s) - Len(sub)) :
                    SubSeq(s, p + 1, p + Len(sub)) = sub}
    IN  IF hits = {} THEN -1
        ELSE CHOOSE p \in hits : \A q \in hits : p <= q

\* s[a:] for a >= 0
SliceFrom(s, a) == SubSeq(s, a + 1, Len(s))

\* s[a:b] for a, b >= 0
Slice(s, a, b) == SubSeq(s, a + 1, IF b < Len(s) THEN b ELSE Len(s))

RECURSIVE DecimalValue(_)
DecimalValue(ds) ==
    IF ds = <<>> THEN 0
    ELSE 10 * DecimalValue(SubSeq(ds, 1, Len(ds) - 1)) + DigitVal(ds[Len(ds)])

\* int(bytes): an optional sign and a non-empty run of digits, anything else
\* raises ValueError (no whitespace or underscore occurs in the inputs used)
ParseInt(s) ==
    LET signed == s # <<>> /\ s[1] \in {"-", "+"}
        ds     == IF signed THEN SliceFrom(s, 1) ELSE s
    IN  IF ds # <<>> /\ \A k \in 1..Len(ds) : ds[k] \in Digits
        THEN [exc |-> "none",
              val |-> IF signed /\ s[1] = "-" THEN 0 - DecimalValue(ds)
                      ELSE DecimalValue(ds)]
        ELSE [exc |-> "ValueError", val |-> 0]

\* str(n) for n >= 0
RECURSIVE Str(_)
Str(n) ==
    IF n < 10 THEN <<DigitChar[n + 1]>>
    ELSE Str(n \div 10) \o <<DigitChar[(n % 10) + 1]>>

-----------------------------------------------------------------------------
(* The job queue's side: what qsub answers and what the queue writes *)

Scripts == {"hostname_example.sge"}

\* qsub's standard output when the job is accepted
QsubAccepted ==
    Marker \o <<"1", "2", " ", "(", "\"", "x", "\"", ")", " ", "h", "a", "s", " ",
                "b", "e", "e", "n", " ", "s", "u", "b", "m", "i", "t", "t", "e", "d">>

\* qsub's standard output when the queue rejects the script
QsubRejected == <<"U", "n", "a", "b", "l", "e", " ", "t", "o", " ", "r", "u", "n">>

\* outputs that hold the marker but no space-terminated run of digits after it
QsubNoDigits == Marker \o <<"x", " ">>

QsubNoSpace == Marker \o <<"1", "2">>

QsubNegative == Marker \o <<"-", "1", " ">>

\* what one run of Popen(['qsub', ...]).communicate() can give
QsubResults ==
    {[spawned |-> FALSE, stdout |-> <<>>]}
    \cup {[spawned |-> TRUE, stdout |-> s] :
            s \in {QsubAccepted, QsubRejected, QsubNoDigits, QsubNoSpace,
                   QsubNegative, <<>>}}

\* Outputs for the parsing of the job id: text, the marker, a run of digits,
\* a space, text.  The text before may itself hold the marker.
ParsePrefixes == {<<>>, <<"Y", "o", "u", "r", " ">>, Marker \o <<"x", " ">>}

ParseRuns == UNION {[1..n -> Digits] : n \in 1..MaxRun}

ParseSuffixes == {<<>>, Marker \o <<"9", " ">>}

ParseOutput(pre, run, post) == pre \o Marker \o run \o <<" ">> \o post

ParseResults ==
    {[spawned |-> TRUE, stdout |-> ParseOutput(pre, run, post)] :
        pre \in ParsePrefixes, run \in ParseRuns, post \in ParseSuffixes}

\* a path the queue has not created yet, a file just created, and a path
\* whose file the Submitter has removed (the queue creates each file once)
NoFile == [state |-> "absent", data |-> <<>>]

EmptyFile == [state |-> "present", data |-> <<>>]

Removed == [state |-> "removed", data |-> <<>>]

\* one write of the job's standard output, of its standard error
OutChunk == "ok\n"

ErrChunk == "real 0m0.01s\n"

\* line 67 without the index
OutputPath_no_index(index) == <<"o", "u", "t", "p", "u", "t", "_">>

OutputPath(index) == <<"o", "u", "t", "p", "u", "t", "_">> \o Str(index)

ErrorPath(index) == <<"e", "r", "r", "o", "r", "_">> \o Str(index)

IsOutputPath(p) == \E k \in 0..(MaxSubmits - 1) : p = OutputPath(k)

Paths == {OutputPath(k) : k \in 0..(MaxSubmits - 1)}
         \cup {ErrorPath(k) : k \in 0..(MaxSubmits - 1)}

\* the paths of the recorded jobs: the only paths the Submitter ever looks
\* at.  Files may appear there whether qsub accepted the job or not (a
\* rejected job's paths can hold the files of an earlier run).
HandedOut == {jobs[k].output_file : k \in 1..Len(jobs)}
             \cup {jobs[k].error_file : k \in 1..Len(jobs)}

isfile(p) == fs[p].state = "present"

st_size(p) == Len(fs[p].data)

-----------------------------------------------------------------------------
(* Job and Submitter *)

JobStatus == {"FAILED", "RUNNING", "FINISHED", "ERROR"}

\* Job.__init__ without the test of line 34
Job_always_running(index, sge_script, job_id, output_file, error_file) ==
    [index |-> index,
     job_id |-> job_id,
     sge_script |-> sge_script,
     output_file |-> output_file,
     error_file |-> error_file,
     status |-> "RUNNING",
     output_string |-> <<>>]

Job(index, sge_script, job_id, output_file, error_file) ==
    [index |-> index,
     job_id |-> job_id,
     sge_script |-> sge_script,
     output_file |-> output_file,
     error_file |-> error_file,
     status |-> IF job_id = -1 THEN "FAILED" ELSE "RUNNING",
     output_string |-> <<>>]

Init ==
    /\ jobs = <<>>
    /\ current_index = 0
    /\ fs = [p \in Paths |-> NoFile]
    /\ pc = "idle"
    /\ i = 0
    /\ finished = TRUE
    /\ ret = [op |-> "none", exc |-> "none"]
    /\ printed = <<>>
    /\ reads = [p \in Paths |-> 0]
    /\ last_stdout = <<>>

\* __submit_sge_script with line 59 lacking its "+ first"
submit_sge_script_last_not_offset(r) ==
    IF ~r.spawned THEN [exc |-> "FileNotFoundError", val |-> 0]
    ELSE LET stdout_data == r.stdout
             found == Find(stdout_data, Marker)
             first == found + Len(Marker)
             last  == Find(SliceFrom(stdout_data, first), <<" ">>)
         IN  IF found = -1 THEN [exc |-> "none", val |-> -1]
             ELSE ParseInt(Slice(stdout_data, first, last))

\* __submit_sge_script with Popen wrapped so that a failure to spawn qsub
\* counts as a rejected job
submit_sge_script_swallow_spawn(r) ==
    IF ~r.spawned THEN [exc |-> "none", val |-> -1]
    ELSE LET stdout_data == r.stdout
             found == Find(stdout_data, Marker)
             first == found + Len(Marker)
             last  == Find(SliceFrom(stdout_data, first), <<" ">>) + first
         IN  IF found = -1 THEN [exc |-> "none", val |-> -1]
             ELSE ParseInt(Slice(stdout_data, first, last))

\* __submit_sge_script: the job id parsed from qsub's output, -1 without the
\* marker, or the exception raised by Popen or by int()
submit_sge_script(r) ==
    IF ~r.spawned THEN [exc |-> "FileNotFoundError", val |-> 0]
    ELSE LET stdout_data == r.stdout
             found == Find(stdout_data, Marker)
             first == found + Len(Marker)
             last  == Find(SliceFrom(stdout_data, first), <<" ">>) + first
         IN  IF found = -1 THEN [exc |-> "none", val |-> -1]
             ELSE ParseInt(Slice(stdout_data, first, last))

submit(name, r) ==
    /\ pc = "idle"
    /\ current_index < MaxSubmits
    /\ LET index       == current_index
           output_file == OutputPath(index)
           error_file  == ErrorPath(index)
           job_id      == submit_sge_script(r)
       IN  /\ current_index' = current_index + 1
           /\ IF job_id.exc # "none"
              THEN /\ jobs' = jobs
                   /\ ret' = [op |-> "submit", exc |-> job_id.exc]
              ELSE /\ jobs' = Append(jobs, Job(index, name, job_id.val,
                                               output_file, error_file))
                   /\ ret' = [op |-> "submit", exc |-> "none"]
    /\ printed' = <<>>
    /\ last_stdout' = r.stdout
    /\ UNCHANGED <<fs, pc, i, finished, reads>>

\* wait() is called: the first cycle of __check_finished_jobs starts
wait ==
    /\ pc = "idle"
    /\ pc' = "poll"
    /\ i' = 0
    /\ finished' = TRUE
    /\ ret' = [op |-> "wait", exc |-> "none"]
    /\ printed' = <<>>
    /\ last_stdout' = <<>>
    /\ UNCHANGED <<jobs, current_index, fs, reads>>

\* an exception leaves wait() and reaches the caller
Raise(exc) ==
    /\ pc' = "idle"
    /\ i' = 0
    /\ finished' = TRUE
    /\ ret' = [op |-> "wait", exc |-> exc]

\* lines 111-112 with the flag overwritten by the latest poll
Return_last_poll(b) ==
    /\ pc' = "poll"
    /\ i' = i + 1
    /\ finished' = b
    /\ ret' = ret

\* __check_for_finish(i) returns b to the loop of __check_finished_jobs
Return(b) ==
    /\ pc' = "poll"
    /\ i' = i + 1
    /\ finished' = (finished /\ b)
    /\ ret' = ret

\* line 80: the job has left RUNNING and is not looked at again
already_done_only_finished(job) == job.status = "FINISHED"

already_done(job) == job.status # "RUNNING"

\* lines 83-89: the output file is missing or still empty
pending_no_size_check(job) == ~isfile(job.output_file)

pending(job) == ~isfile(job.output_file) \/ st_size(job.output_file) = 0

\* __check_for_finish(i), lines 79-100
check_for_finish ==
    /\ pc = "poll"
    /\ i < current_index
    /\ IF i >= Len(jobs)
       THEN Raise("IndexError") /\ UNCHANGED <<jobs, fs>>
       ELSE LET job == jobs[i + 1] IN
            IF already_done(job)
            THEN Return(TRUE) /\ UNCHANGED <<jobs, fs>>
            ELSE IF pending(job)
            THEN Return(FALSE) /\ UNCHANGED <<jobs, fs>>
            ELSE IF isfile(job.error_file) /\ st_size(job.error_file) # 0
            THEN \* line 97 names ob, which is not defined
                 Raise("NameError") /\ UNCHANGED <<jobs, fs>>
            ELSE /\ jobs' = IF isfile(job.error_file)
                            THEN [jobs EXCEPT ![i + 1].status = "FINISHED"]
                            ELSE jobs
                 /\ pc' = "read"
                 /\ UNCHANGED <<fs, i, finished, ret>>
    /\ UNCHANGED <<current_index, printed, reads, last_stdout>>

\* line 101 with readline() in place of read()
read_output_readline ==
    /\ pc = "read"
    /\ LET job == jobs[i + 1] IN
       jobs' = [jobs EXCEPT ![i + 1].output_string =
                    job.output_string \o SubSeq(fs[job.output_file].data, 1, 1)]
    /\ reads' = [reads EXCEPT ![jobs[i + 1].output_file] = @ + 1]
    /\ pc' = "remove"
    /\ UNCHANGED <<current_index, fs, i, finished, ret, printed, last_stdout>>

\* line 101
read_output ==
    /\ pc = "read"
    /\ LET job == jobs[i + 1] IN
       jobs' = [jobs EXCEPT ![i + 1].output_string =
                                job.output_string \o fs[job.output_file].data]
    /\ reads' = [reads EXCEPT ![jobs[i + 1].output_file] = @ + 1]
    /\ pc' = "remove"
    /\ UNCHANGED <<current_index, fs, i, finished, ret, printed, last_stdout>>

\* lines 102-105 without the assignment of line 104
remove_output_no_status ==
    /\ pc = "remove"
    /\ fs' = [fs EXCEPT ![jobs[i + 1].output_file] = Removed]
    /\ jobs' = jobs
    /\ Return(TRUE)
    /\ UNCHANGED <<current_index, printed, reads, last_stdout>>

\* lines 103-105, the os.remove of line 102 left out
remove_output_keep_file ==
    /\ pc = "remove"
    /\ fs' = fs
    /\ jobs' = [jobs EXCEPT ![i + 1].status = "FINISHED"]
    /\ Return(TRUE)
    /\ UNCHANGED <<current_index, printed, reads, last_stdout>>

\* lines 102-105
remove_output ==
    /\ pc = "remove"
    /\ LET job == jobs[i + 1] IN
       /\ fs' = [fs EXCEPT ![job.output_file] = Removed]
       /\ jobs' = [jobs EXCEPT ![i + 1].status = "FINISHED"]
    /\ Return(TRUE)
    /\ UNCHANGED <<current_index, printed, reads, last_stdout>>

\* __check_finished_jobs has polled every index: wait() returns or sleeps
check_finished_jobs ==
    /\ pc = "poll"
    /\ i >= current_index
    /\ IF finished
       THEN /\ pc' = "idle"
            /\ ret' = [op |-> "wait", exc |-> "none"]
       ELSE /\ pc' = "sleep"
            /\ ret' = ret
    /\ i' = 0
    /\ finished' = TRUE
    /\ UNCHANGED <<jobs, current_index, fs, printed, reads, last_stdout>>

\* time.sleep(1) ends and the next cycle starts
sleep ==
    /\ pc = "sleep"
    /\ pc' = "poll"
    /\ i' = 0
    /\ finished' = TRUE
    /\ UNCHANGED <<jobs, current_index, fs, ret, printed, reads, last_stdout>>

\* __print_job without the status test of line 126
print_job_any_status(job, print_output) ==
    <<<<"Job", job.index, job.sge_script, job.job_id, job.status>>>>
    \o (IF print_output
        THEN <<<<"Output", job.output_string>>>>
        ELSE <<>>)

\* __print_job: the lines it emits for one job
print_job(job, print_output) ==
    <<<<"Job", job.index, job.sge_script, job.job_id, job.status>>>>
    \o (IF print_output /\ job.status \in {"FINISHED", "ERROR"}
        THEN <<<<"Output", job.output_string>>>>
        ELSE <<>>)

RECURSIVE print_lines(_, _)
print_lines(n, print_output) ==
    IF n = 0 THEN <<>>
    ELSE print_lines(n - 1, print_output) \o print_job(jobs[n], print_output)

print_results(print_output) ==
    /\ pc = "idle"
    /\ IF current_index > Len(jobs)
       THEN /\ printed' = print_lines(Len(jobs), print_output)
            /\ ret' = [op |-> "print_results", exc |-> "IndexError"]
       ELSE /\ printed' = print_lines(current_index, print_output)
            /\ ret' = [op |-> "print_results", exc |-> "none"]
    /\ last_stdout' = <<>>
    /\ UNCHANGED <<jobs, current_index, fs, pc, i, finished, reads>>

-----------------------------------------------------------------------------
(* The queue *)

\* the queue creates a file it was given the path of
queue_create(p) ==
    /\ p \in HandedOut
    /\ fs[p] = NoFile
    /\ fs' = [fs EXCEPT ![p] = EmptyFile]
    /\ UNCHANGED <<jobs, current_index, pc, i, finished, ret, printed, reads,
                   last_stdout>>

\* a job appends to its standard output or to its standard error
queue_write(p) ==
    /\ p \in HandedOut
    /\ isfile(p)
    /\ IF IsOutputPath(p)
       THEN /\ Len(fs[p].data) < MaxFileLen
            /\ fs' = [fs EXCEPT ![p].data = Append(@, OutChunk)]
       ELSE /\ fs[p].data = <<>>
            /\ fs' = [fs EXCEPT ![p].data = <<ErrChunk>>]
    /\ UNCHANGED <<jobs, current_index, pc, i, finished, ret, printed, reads,
                   last_stdout>>

-----------------------------------------------------------------------------

Next ==
    \/ \E name \in Scripts, r \in QsubResults : submit(name, r)
    \/ wait
    \/ check_for_finish
    \/ read_output
    \/ remove_output
    \/ check_finished_jobs
    \/ sleep
    \/ \E print_output \in BOOLEAN : print_results(print_output)
    \/ \E p \in Paths : queue_create(p)
    \/ \E p \in Paths : queue_write(p)

Spec == Init /\ [][Next]_vars

\* the first submit call of a Submitter, over the outputs that exercise the
\* parsing
ParseNext ==
    /\ current_index = 0
    /\ \E name \in Scripts, r \in ParseResults : submit(name, r)

ParseSpec == Init /\ [][ParseNext]_vars

-----------------------------------------------------------------------------
(* Properties *)

Terminal == {"FAILED", "FINISHED", "ERROR"}

\* the last operation of the caller was wait() and it returned normally
WaitReturned == pc = "idle" /\ ret = [op |-> "wait", exc |-> "none"]

\* the step is one of the Submitter's thread inside wait(), not of the queue
PollStep == <<pc, i>>' # <<pc, i>>

\* the loop of __check_finished_jobs is about to poll job number k (0-based)
AboutToPoll(k) == pc = "poll" /\ i = k /\ k < Len(jobs)

OutputReady(job) == isfile(job.output_file) /\ st_size(job.output_file) # 0

ErrorReady(job) == isfile(job.error_file) /\ st_size(job.error_file) # 0

\* C1: when wait() returns, every job of the Submitter has a status among
\* FAILED, FINISHED and ERROR; none is RUNNING.  And wait() goes to sleep
\* only after a cycle that met a RUNNING job, so with no job it returns on
\* the first cycle.
C1_WaitReturnsAllTerminal ==
    /\ WaitReturned => \A k \in 1..Len(jobs) : jobs[k].status \in Terminal
    /\ pc = "sleep" => \E k \in 1..Len(jobs) : jobs[k].status = "RUNNING"

C1_Witness ==
    /\ WaitReturned
    /\ Len(jobs) = 2
    /\ jobs[1].status = "FINISHED"
    /\ jobs[2].status = "FINISHED"

\* C2: wait() ends by returning, with every accepted job FINISHED and holding
\* the text of its output file.  Stated for the runs in which every submit
\* call recorded its job: whenever wait() has ended, it has not raised, and
\* each job with a job id has status FINISHED and a non-empty output_string.
C2_WaitEndsFinished ==
    (pc = "idle" /\ ret.op = "wait" /\ current_index = Len(jobs))
        => /\ ret.exc = "none"
           /\ \A k \in 1..Len(jobs) :
                jobs[k].job_id # -1 =>
                    /\ jobs[k].status = "FINISHED"
                    /\ jobs[k].output_string # <<>>

\* C3: a poll of a RUNNING job whose output file and error file are both
\* non-empty takes the error file's content into output_string and deletes
\* the error file, then goes on to read the output file.
C3_DiagnosticMerge ==
    [][\A k \in 0..(MaxSubmits - 1) :
        (AboutToPoll(k) /\ jobs[k + 1].status = "RUNNING"
         /\ OutputReady(jobs[k + 1]) /\ ErrorReady(jobs[k + 1]) /\ PollStep)
            => /\ jobs'[k + 1].output_string = fs[jobs[k + 1].error_file].data
               /\ ~isfile(jobs[k + 1].error_file)'
               /\ pc' = "read"]_vars

\* C4: between the operations of the Submitter, current_index equals the
\* number of jobs in its list.
C4_IndexEqualsLength == pc = "idle" => current_index = Len(jobs)

HasJobLine(s) ==
    \E p \in 0..(Len(s) - Len(Marker) - 1) :
        /\ SubSeq(s, p + 1, p + Len(Marker)) = Marker
        /\ s[p + Len(Marker) + 1] \in Digits

\* C5: a submit whose qsub output does not hold "Your job " followed by a
\* digit does not raise: it appends a Job with status FAILED and job_id -1.
C5_RejectedIsFailed ==
    [][\A name \in Scripts, r \in QsubResults :
        (r.spawned /\ ~HasJobLine(r.stdout) /\ submit(name, r))
            => /\ ret'.exc = "none"
               /\ Len(jobs') = Len(jobs) + 1
               /\ jobs'[Len(jobs')].status = "FAILED"
               /\ jobs'[Len(jobs')].job_id = -1]_vars

\* C6: a poll of a RUNNING job whose output file is non-empty and whose error
\* file is absent or empty goes on to the read; the read appends the whole
\* output file to output_string; the removal deletes the output file, sets
\* FINISHED and reports True.  A poll of a FINISHED job reports True and
\* changes neither the jobs nor the files.
C6_CompletionAndCleanup ==
    [][\A k \in 0..(MaxSubmits - 1) :
        /\ (AboutToPoll(k) /\ jobs[k + 1].status = "RUNNING"
            /\ OutputReady(jobs[k + 1]) /\ ~ErrorReady(jobs[k + 1]) /\ PollStep)
              => /\ pc' = "read" /\ i' = k
                 /\ jobs'[k + 1].output_string = jobs[k + 1].output_string
                 /\ fs' = fs
        /\ (pc = "read" /\ i = k /\ PollStep)
              => /\ pc' = "remove" /\ i' = k
                 /\ jobs'[k + 1].output_string =
                        jobs[k + 1].output_string \o fs[jobs[k + 1].output_file].data
                 /\ fs' = fs
        /\ (pc = "remove" /\ i = k /\ PollStep)
              => /\ pc' = "poll" /\ i' = k + 1 /\ finished' = finished
                 /\ jobs'[k + 1].status = "FINISHED"
                 /\ jobs'[k + 1].output_string = jobs[k + 1].output_string
                 /\ ~isfile(jobs[k + 1].output_file)'
                 /\ \A p \in Paths \ {jobs[k + 1].output_file} : fs'[p] = fs[p]
        /\ (AboutToPoll(k) /\ jobs[k + 1].status = "FINISHED" /\ PollStep)
              => /\ pc' = "poll" /\ i' = k + 1 /\ finished' = finished
                 /\ jobs' = jobs
                 /\ fs' = fs]_vars

\* a job FINISHED in an earlier cycle, holding the two chunks of its output
\* file, the file gone, and the loop at that job again
C6_Witness ==
    \E k \in 0..(MaxSubmits - 1) :
        /\ AboutToPoll(k)
        /\ jobs[k + 1].status = "FINISHED"
        /\ jobs[k + 1].output_string = <<OutChunk, OutChunk>>
        /\ fs[jobs[k + 1].output_file] = Removed

\* C7: a poll of a RUNNING job whose output file is absent or empty reports
\* False and changes neither the jobs nor the files, whatever the state of
\* the error file.
C7_PendingStability ==
    [][\A k \in 0..(MaxSubmits - 1) :
        (AboutToPoll(k) /\ jobs[k + 1].status = "RUNNING"
         /\ ~OutputReady(jobs[k + 1]) /\ PollStep)
            => /\ pc' = "poll" /\ i' = k + 1 /\ finished' = FALSE
               /\ jobs' = jobs
               /\ fs' = fs]_vars

\* job 0 has just been polled with an empty output file and a non-empty
\* error file
C7_Witness ==
    /\ pc = "poll" /\ i = 1 /\ finished = FALSE
    /\ Len(jobs) >= 1
    /\ jobs[1].status = "RUNNING"
    /\ fs[jobs[1].output_file] = EmptyFile
    /\ ErrorReady(jobs[1])

\* C8: after N submit calls the list holds N jobs, and the job at position
\* k (from 0) has index k.
C8_IndicesArePositions ==
    pc = "idle" =>
        /\ Len(jobs) = current_index
        /\ \A k \in 1..Len(jobs) : jobs[k].index = k - 1

\* C9: a job has status FAILED exactly when its job_id is -1; no step
\* changes a job's job_id, and no step moves a job into or out of FAILED.
C9_FailedIffSentinel ==
    /\ [](\A k \in 1..Len(jobs) :
            jobs[k].status = "FAILED" <=> jobs[k].job_id = -1)
    /\ [][\A k \in 1..Len(jobs) :
            /\ Len(jobs') >= Len(jobs)
            /\ jobs'[k].job_id = jobs[k].job_id
            /\ (jobs'[k].status = "FAILED" <=> jobs[k].status = "FAILED")]_vars

\* wait() has returned with a FAILED job whose output file is non-empty
\* next to a FINISHED job
C9_Witness ==
    /\ WaitReturned
    /\ Len(jobs) = 2
    /\ jobs[1].status = "FAILED" /\ jobs[1].job_id = -1
    /\ OutputReady(jobs[1])
    /\ jobs[2].status = "FINISHED" /\ jobs[2].job_id = 12

\* C10: a job whose status is FAILED, FINISHED or ERROR keeps its status and
\* its output_string in every later step.  The poll that is finishing a job
\* is not a later step: line 100 can set FINISHED before lines 101-104 of
\* the same poll run.
C10_TerminalFrozen ==
    [][\A k \in 1..Len(jobs) :
        (jobs[k].status \in Terminal /\ ~(pc \in {"read", "remove"} /\ i = k - 1))
            => /\ Len(jobs') >= Len(jobs)
               /\ jobs'[k].status = jobs[k].status
               /\ jobs'[k].output_string = jobs[k].output_string]_vars

\* a cycle of wait() has polled a FINISHED job and a FAILED job, each with
\* a non-empty file at one of its paths
C10_Witness ==
    /\ Len(jobs) = 2
    /\ jobs[1].status = "FINISHED" /\ ErrorReady(jobs[1])
    /\ jobs[2].status = "FAILED" /\ OutputReady(jobs[2])
    /\ pc = "poll" /\ i = 2 /\ finished = TRUE

\* the Submitter is between the read and the removal of job k's output file
MidPoll(k) == pc \in {"read", "remove"} /\ i = k

\* C11: no file is read more than once, and a file that has been read is
\* gone once the poll that read it is over: the removal is the next step of
\* the Submitter after the read.  (Only output files are ever read.)
C11_ReadOnceThenDeleted ==
    /\ \A p \in Paths : reads[p] <= 1
    /\ \A k \in 1..Len(jobs) :
        /\ reads[jobs[k].error_file] = 0
        /\ (reads[jobs[k].output_file] >= 1 /\ ~MidPoll(k - 1))
              => ~isfile(jobs[k].output_file)
        /\ (pc = "remove" /\ i = k - 1) => reads[jobs[k].output_file] = 1

\* both jobs have had their output file read, and the files are gone
C11_Witness ==
    /\ Len(jobs) = 2
    /\ \A k \in 1..2 :
        /\ reads[jobs[k].output_file] = 1
        /\ fs[jobs[k].output_file] = Removed
        /\ jobs[k].output_string # <<>>
    /\ WaitReturned

RECURSIVE Pow10(_)
Pow10(n) == IF n = 0 THEN 1 ELSE 10 * Pow10(n - 1)

\* the number a run of decimal digits denotes: digit k counts 10^(Len - k)
RECURSIVE RunValueFrom(_, _)
RunValueFrom(run, k) ==
    IF k > Len(run) THEN 0
    ELSE (CHOOSE n \in 0..9 : Str(n) = <<run[k]>>) * Pow10(Len(run) - k)
         + RunValueFrom(run, k + 1)

HoldsMarker(s) ==
    \E p \in 0..(Len(s) - Len(Marker)) : SubSeq(s, p + 1, p + Len(Marker)) = Marker

\* the step is a submit call
SubmitStep == current_index' # current_index

\* submit has appended a RUNNING job with the given job id
Accepted(id) ==
    /\ ret'.exc = "none"
    /\ Len(jobs') = Len(jobs) + 1
    /\ jobs'[Len(jobs')].job_id = id
    /\ jobs'[Len(jobs')].status = "RUNNING"

\* the ways to read an output as text, marker, digits, space, text
ParseCases ==
    {[stdout |-> ParseOutput(pre, run, post),
      first  |-> ~HoldsMarker(pre),
      value  |-> RunValueFrom(run, 1)] :
        pre \in ParsePrefixes, run \in ParseRuns, post \in ParseSuffixes}

\* C12 as claimed: whatever text stands before and after "Your job <digits> ",
\* submit yields a RUNNING job whose job_id is the value of the digits.
C12_ParsesAnyOutput ==
    [][SubmitStep =>
        \A c \in ParseCases :
            c.stdout = last_stdout' => Accepted(c.value)]_vars

\* C12 amended: the same, when the text before does not hold the marker, so
\* that "Your job <digits> " is the first occurrence of the marker.
C12_ParsesFirstMarker ==
    [][SubmitStep =>
        \A c \in ParseCases :
            (c.first /\ c.stdout = last_stdout') => Accepted(c.value)]_vars

\* a job id of two digits, parsed from an output with text after it
C12_Witness ==
    /\ Len(jobs) = 1
    /\ jobs[1].job_id = 70 /\ jobs[1].status = "RUNNING"
    /\ last_stdout = ParseOutput(<<"Y", "o", "u", "r", " ">>, <<"7", "0">>,
                                 Marker \o <<"9", " ">>)

\* C13: a submit call in which qsub cannot be spawned ends by an exception
\* reaching the caller and records no Job, FAILED or other.
C13_SpawnFailureRaises ==
    [][\A name \in Scripts :
        submit(name, [spawned |-> FALSE, stdout |-> <<>>])
            => /\ ret' = [op |-> "submit", exc |-> "FileNotFoundError"]
               /\ jobs' = jobs]_vars

\* the second submit call could not spawn qsub: one job is recorded
C13_Witness ==
    /\ pc = "idle"
    /\ ret = [op |-> "submit", exc |-> "FileNotFoundError"]
    /\ current_index = 2
    /\ Len(jobs) = 1

\* C14: no two jobs share an output path or an error path, no output path
\* is an error path, each job's paths are "output_<index>" and
\* "error_<index>", and no step changes the paths of a job.
C14_PathsUniqueAndFixed ==
    /\ [](\A j, k \in 1..Len(jobs) :
            /\ j # k => /\ jobs[j].output_file # jobs[k].output_file
                        /\ jobs[j].error_file # jobs[k].error_file
            /\ jobs[j].output_file # jobs[k].error_file
            /\ jobs[k].output_file =
                    <<"o", "u", "t", "p", "u", "t", "_">> \o Str(jobs[k].index)
            /\ jobs[k].error_file =
                    <<"e", "r", "r", "o", "r", "_">> \o Str(jobs[k].index))
    /\ [][\A k \in 1..Len(jobs) :
            /\ Len(jobs') >= Len(jobs)
            /\ jobs'[k].output_file = jobs[k].output_file
            /\ jobs'[k].error_file = jobs[k].error_file]_vars

\* two jobs, one FINISHED by a poll and one rejected, with their own paths
C14_Witness ==
    /\ Len(jobs) = 2
    /\ jobs[1].status = "FINISHED"
    /\ jobs[2].status = "FAILED"
    /\ jobs[1].output_file # jobs[2].output_file
    /\ jobs[1].error_file # jobs[2].error_file
    /\ WaitReturned

IsSummary(line) == line[1] = "Job"

\* C15: print_results emits one summary line per job of the list, in the
\* order of the list and with rising indices; an output line only when
\* asked for, right after the summary of a FINISHED or ERROR job and
\* holding that job's output_string, and then for each such job; and it
\* changes neither the jobs, nor current_index, nor any file.
C15_PrintResultsReadsOnly ==
    [][\A print_output \in BOOLEAN :
        print_results(print_output) =>
            LET summaries == SelectSeq(printed', IsSummary)
                done == {k \in 1..Len(jobs) :
                            jobs[k].status \in {"FINISHED", "ERROR"}}
            IN  /\ Len(summaries) = Len(jobs)
                /\ \A k \in 1..Len(jobs) :
                      summaries[k] = <<"Job", jobs[k].index, jobs[k].sge_script,
                                       jobs[k].job_id, jobs[k].status>>
                /\ \A j, k \in 1..Len(jobs) :
                      j < k => summaries[j][2] < summaries[k][2]
                /\ \A p \in 1..Len(printed') :
                      ~IsSummary(printed'[p]) =>
                        /\ print_output
                        /\ p > 1
                        /\ IsSummary(printed'[p - 1])
                        /\ \E k \in done :
                              /\ printed'[p - 1][2] = jobs[k].index
                              /\ printed'[p] = <<"Output", jobs[k].output_string>>
                /\ Len(printed') - Len(summaries)
                      = IF print_output THEN Cardinality(done) ELSE 0
                /\ UNCHANGED <<jobs, current_index, fs>>]_vars

\* printed with the output asked for: a RUNNING job, then a FINISHED job
\* and its output
C15_Witness ==
    /\ ret = [op |-> "print_results", exc |-> "none"]
    /\ Len(jobs) = 2
    /\ jobs[1].status = "RUNNING"
    /\ jobs[2].status = "FINISHED"
    /\ Len(printed) = 3
    /\ printed[3] = <<"Output", <<OutChunk, OutChunk>>>>

\* C16: a cycle of __check_finished_jobs polls the jobs one after the other
\* without leaving the loop; a RUNNING job whose output is ready is taken to
\* the read whatever the earlier polls of the cycle reported; once a poll
\* has reported False the cycle's flag stays False; and wait() returns only
\* from a cycle whose flag is True.
C16_CyclePollsEveryJob ==
    [][/\ \A k \in 0..(MaxSubmits - 1) :
          /\ (AboutToPoll(k) /\ PollStep)
                => \/ pc' = "poll" /\ i' = k + 1
                   \/ pc' = "read" /\ i' = k
          /\ (AboutToPoll(k) /\ jobs[k + 1].status = "RUNNING"
              /\ OutputReady(jobs[k + 1]) /\ PollStep)
                => pc' = "read"
       /\ (pc \in {"poll", "read", "remove"} /\ ~finished
           /\ pc' \in {"poll", "read", "remove"})
             => ~finished'
       /\ (pc = "poll" /\ pc' = "idle" /\ ret'.exc = "none")
             => finished]_vars

\* C17: no job ever has status ERROR, the only change of a status is from
\* RUNNING to FINISHED, and a poll that finds a non-empty error file next
\* to a non-empty output file goes on to the read and so to FINISHED.
C17_ErrorFileFallsThrough ==
    /\ [](\A k \in 1..Len(jobs) : jobs[k].status # "ERROR")
    /\ [][\A k \in 1..Len(jobs) :
            jobs'[k].status # jobs[k].status
                => jobs[k].status = "RUNNING" /\ jobs'[k].status = "FINISHED"]_vars
    /\ [][\A k \in 0..(MaxSubmits - 1) :
            (AboutToPoll(k) /\ jobs[k + 1].status = "RUNNING"
             /\ ErrorReady(jobs[k + 1]) /\ OutputReady(jobs[k + 1]) /\ PollStep)
                => pc' = "read" /\ ret' = ret]_vars

IsPrefix(s, t) == Len(s) <= Len(t) /\ SubSeq(t, 1, Len(s)) = s

\* C18 as claimed: when a poll deletes the output file and makes the job
\* FINISHED, the job's output_string holds all the text that the queue's
\* job had written to the file.
C18_NoTextLost ==
    [][\A k \in 0..(MaxSubmits - 1) :
        (pc = "remove" /\ i = k /\ PollStep)
            => /\ jobs'[k + 1].status = "FINISHED"
               /\ jobs'[k + 1].output_string = fs[jobs[k + 1].output_file].data]_vars

\* C18 amended: the output_string of a FINISHED job is the content the file
\* had when line 101 read it, which is a non-empty prefix of the content
\* the file has when line 102 deletes it.
C18_CapturedIsContentAtRead ==
    [][\A k \in 0..(MaxSubmits - 1) :
        /\ (pc = "read" /\ i = k /\ PollStep)
              => jobs'[k + 1].output_string = fs[jobs[k + 1].output_file].data
        /\ (pc = "remove" /\ i = k /\ PollStep)
              => /\ jobs'[k + 1].status = "FINISHED"
                 /\ jobs'[k + 1].output_string = jobs[k + 1].output_string
                 /\ jobs'[k + 1].output_string # <<>>
                 /\ IsPrefix(jobs'[k + 1].output_string,
                             fs[jobs[k + 1].output_file].data)]_vars

\* the queue's job has appended a chunk between the read and the removal
C18_Witness ==
    /\ pc = "remove"
    /\ jobs[i + 1].output_string = <<OutChunk>>
    /\ fs[jobs[i + 1].output_file].data = <<OutChunk, OutChunk>>

\* C19: outside the poll that is finishing it, a RUNNING or FAILED job has
\* an empty output_string; output_string changes only at line 101 of a
\* poll, and that poll ends with the job FINISHED.
C19_OutputOnlyWhenFinished ==
    /\ [](\A k \in 1..Len(jobs) :
            (jobs[k].status \in {"RUNNING", "FAILED"}
             /\ ~(pc = "remove" /\ i = k - 1))
                => jobs[k].output_string = <<>>)
    /\ [][\A k \in 1..Len(jobs) :
            jobs'[k].output_string # jobs[k].output_string
                => pc = "read" /\ i = k - 1 /\ pc' = "remove" /\ i' = i]_vars
    /\ [][\A k \in 0..(MaxSubmits - 1) :
            (pc = "remove" /\ i = k /\ PollStep)
                => jobs'[k + 1].status = "FINISHED"]_vars

\* a cycle has ended with a FINISHED job that holds its output, a RUNNING
\* job and its empty output file
C19_Witness ==
    /\ pc = "sleep"
    /\ Len(jobs) = 2
    /\ jobs[1].status = "FINISHED" /\ jobs[1].output_string # <<>>
    /\ jobs[2].status = "RUNNING" /\ jobs[2].output_string = <<>>
    /\ fs[jobs[2].output_file] = EmptyFile

====
